---- MODULE Spec2Model ----
(***************************************************************************)
(* InertialTorquePartial (Tudat, rotational dynamics partials): the epoch   *)
(* cache of the torque-free pseudo-torque -w x (I w), its update, and the   *)
(* state-partial accessors that accumulate into a caller-owned matrix.      *)
(***************************************************************************)
EXTENDS Integers, Sequences, FiniteSets, TLC

(***************************************************************************)
(* double.  A binary floating-point number is modelled at reduced size: a   *)
(* finite value is an integer count of units of 2^-FracBits, the            *)
(* significand holds MantBits bits, the largest binade is MaxExp, results   *)
(* are rounded to nearest, ties to even, and overflow gives an infinity.    *)
(* Signed zeros are not distinguished.                                      *)
(***************************************************************************)
MantBits == 3
FracBits == 2
MaxExp == 4

RECURSIVE Pow2(_)
Pow2(n) == IF n = 0 THEN 1 ELSE 2 * Pow2(n - 1)

One == Pow2(FracBits)
\* One past the largest significand.
Radix == Pow2(MantBits)
MaxFinite == (Pow2(MantBits) - 1) * Pow2(MaxExp)
PosInf == 2 * MaxFinite
NegInf == -PosInf
NaN == PosInf + 1

Abs(x) == IF x < 0 THEN -x ELSE x
Sgn(x) == IF x < 0 THEN -1 ELSE 1

IsNaN(x) == x = NaN
IsInf(x) == x = PosInf \/ x = NegInf
IsFinite(x) == ~IsNaN(x) /\ ~IsInf(x)

\* The spacing of the representable values around |num| / den.
RECURSIVE Ulp(_, _, _)
Ulp(num, den, u) ==
    IF num < Radix * u * den THEN u ELSE Ulp(num, den, 2 * u)

\* num / den (num >= 0, den > 0, in units) rounded to nearest, ties to even.
RoundMagnitude(num, den) ==
    LET u == Ulp(num, den, 1)
        d == den * u
        k == num \div d
        r == num % d
        up == (2 * r > d) \/ (2 * r = d /\ k % 2 = 1)
    IN  (IF up THEN k + 1 ELSE k) * u

\* The double nearest to sign * num / den.
Round(sign, num, den) ==
    LET m == RoundMagnitude(num, den)
    IN  IF m > MaxFinite
        THEN (IF sign < 0 THEN NegInf ELSE PosInf)
        ELSE sign * m

\* The finite doubles, and all doubles.
FiniteDoubles ==
    { s * m * Pow2(e) : s \in {-1, 1}, m \in 0 .. Radix - 1, e \in 0 .. MaxExp }
Doubles == FiniteDoubles \cup {PosInf, NegInf, NaN}

fNeg(a) == IF IsNaN(a) THEN NaN ELSE -a

fAdd(a, b) ==
    IF IsNaN(a) \/ IsNaN(b) THEN NaN
    ELSE IF IsInf(a) /\ IsInf(b) THEN (IF a = b THEN a ELSE NaN)
    ELSE IF IsInf(a) THEN a
    ELSE IF IsInf(b) THEN b
    ELSE Round(Sgn(a + b), Abs(a + b), 1)

fSub(a, b) == fAdd(a, fNeg(b))

fMul(a, b) ==
    IF IsNaN(a) \/ IsNaN(b) THEN NaN
    ELSE IF IsInf(a) \/ IsInf(b)
         THEN (IF a = 0 \/ b = 0 THEN NaN
               ELSE IF Sgn(a) * Sgn(b) < 0 THEN NegInf ELSE PosInf)
    ELSE Round(Sgn(a) * Sgn(b), Abs(a) * Abs(b), One)

fDiv(a, b) ==
    IF IsNaN(a) \/ IsNaN(b) THEN NaN
    ELSE IF IsInf(a) THEN (IF IsInf(b) THEN NaN
                           ELSE IF Sgn(a) * Sgn(b) < 0 THEN NegInf ELSE PosInf)
    ELSE IF IsInf(b) THEN 0
    ELSE IF b = 0 THEN (IF a = 0 THEN NaN ELSE IF a < 0 THEN NegInf ELSE PosInf)
    ELSE Round(Sgn(a) * Sgn(b), Abs(a) * One, Abs(b))

\* operator== on doubles: a NaN compares unequal to everything, itself included.
fEqBitwise(a, b) == a = b

fEq(a, b) == ~IsNaN(a) /\ ~IsNaN(b) /\ a = b

(***************************************************************************)
(* Eigen::Vector3d is a sequence of three doubles, Eigen::Matrix3d and      *)
(* Eigen::MatrixXd are sequences of rows.                                   *)
(***************************************************************************)
Idx3 == 1 .. 3

MatNeg(A) == [i \in Idx3 |-> [j \in Idx3 |-> fNeg(A[i][j])]]

MatAdd(A, B) == [i \in Idx3 |-> [j \in Idx3 |-> fAdd(A[i][j], B[i][j])]]

MatMul(A, B) ==
    [i \in Idx3 |-> [j \in Idx3 |->
        fAdd(fAdd(fMul(A[i][1], B[1][j]), fMul(A[i][2], B[2][j])), fMul(A[i][3], B[3][j]))]]

MatVec(A, v) ==
    [i \in Idx3 |-> fAdd(fAdd(fMul(A[i][1], v[1]), fMul(A[i][2], v[2])), fMul(A[i][3], v[3]))]

\* linear_algebra::getCrossProductMatrix: the matrix [v x] with [v x] u = v x u.
getCrossProductMatrix(v) ==
    << << 0,          fNeg(v[3]), v[2]       >>,
       << v[3],       0,          fNeg(v[1]) >>,
       << fNeg(v[2]), v[1],       0          >> >>

\* Eigen's fixed-size 3x3 inverse: the transposed cofactors times 1 / det.
Next3(i) == (i % 3) + 1
Cofactor(M, i, j) ==
    fSub(fMul(M[Next3(i)][Next3(j)], M[Next3(Next3(i))][Next3(Next3(j))]),
         fMul(M[Next3(i)][Next3(Next3(j))], M[Next3(Next3(i))][Next3(j)]))
Determinant(M) ==
    fAdd(fAdd(fMul(Cofactor(M, 1, 1), M[1][1]), fMul(Cofactor(M, 2, 1), M[2][1])),
         fMul(Cofactor(M, 3, 1), M[3][1]))
Inverse(M) ==
    LET invdet == fDiv(One, Determinant(M))
    IN  [i \in Idx3 |-> [j \in Idx3 |-> fMul(Cofactor(M, j, i), invdet)]]

(***************************************************************************)
(* Bounds of the model.                                                     *)
(***************************************************************************)
\* The caller-owned matrix is NumRows x NumCols.
NumRows == 4
NumCols == 6
\* The number of calls made on the provider in one run.
MaxCalls == 3

\* Epochs passed to update: two real epochs and TUDAT_NAN, its default.
Epochs == {0, One, NaN}

\* States of the body the bound accessor functions read: angular velocity,
\* inertia tensor, normalization factor, gravitational parameter.
BodyState(w, I, n, mu) ==
    [angularVelocity |-> w, inertiaTensor |-> I, normalization |-> n,
     gravitationalParameter |-> mu]
BodyStates ==
    { BodyState(<< 1, 2, 3 >>,
                << << One, 0, 0 >>, << 0, 2 * One, 0 >>, << 0, 0, 3 * One >> >>,
                One, One),
      BodyState(<< 1, 2, 3 >>,
                << << One, 0, 0 >>, << 0, 2 * One, 0 >>, << 0, 0, 3 * One >> >>,
                2 * One, 3 * One),
      BodyState(<< One, 0, -One >>,
                << << 2 * One, 1, 0 >>, << 1, 2 * One, 0 >>, << 0, 0, One >> >>,
                One, 3 * One) }
\* The epoch and the state of the body of an update call in which one of the
\* accessors throws.
FailingEpoch == One
FailingBodyState ==
    BodyState(<< One, 0, -One >>,
              << << 2 * One, 1, 0 >>, << 1, 2 * One, 0 >>, << 0, 0, One >> >>,
              2 * One, One)

\* The accessors in the order update calls them; "none" when none of them throws.
Accessors == << "angularVelocity", "normalization", "gravitationalParameter", "inertiaTensor" >>
Failures == {"none"} \cup {Accessors[k] : k \in 1 .. 4}
CallIndex(a) == CHOOSE k \in 1 .. 4 : Accessors[k] = a

\* Contents of members the constructor leaves uninitialised.
Indeterminate == {One, NaN}
Vec3Of(g) == [i \in Idx3 |-> g]
Mat3Of(g) == [i \in Idx3 |-> [j \in Idx3 |-> g]]

\* Contents of the caller's matrix before the first call.
Prefills ==
    { [r \in 1 .. NumRows |-> [c \in 1 .. NumCols |-> 0]],
      [r \in 1 .. NumRows |-> [c \in 1 .. NumCols |-> Radix + 2 * ((r + c) % 3)]] }

VARIABLES
    currentTime_,
    currentAngularVelocityVector_,
    currentAngularVelocityCrossProductMatrix_,
    currentInertiaTensor_,
    currentInverseInertiaTensor_,
    currentPartialDerivativeWrtAngularVelocity_,
    currentInertiaTensorNormalizationFactor_,
    currentGravitationalParameter_,
    partialMatrix,
    matrixBefore,
    numCalls,
    lastCall,
    numUpdates,
    lastUpdateTime,
    previousUpdateTime,
    lastReturn

cache ==
    << currentAngularVelocityVector_, currentAngularVelocityCrossProductMatrix_,
       currentInertiaTensor_, currentInverseInertiaTensor_,
       currentPartialDerivativeWrtAngularVelocity_,
       currentInertiaTensorNormalizationFactor_, currentGravitationalParameter_ >>

\* The record of the calls made so far: matrixBefore is the caller's matrix as
\* it was before the last call, lastUpdateTime the argument of the last update
\* call and previousUpdateTime that of the update call before it, lastReturn
\* what the last call handed back to its caller.
history ==
    << matrixBefore, numCalls, lastCall, numUpdates, lastUpdateTime, previousUpdateTime,
       lastReturn >>

updateCalled == numUpdates > 0

vars == << currentTime_, cache, partialMatrix, history >>

NoInvocation == [a \in {Accessors[k] : k \in 1 .. 4} |-> 0]

\* The record of one call: the operation, its arguments, how often it invoked
\* each bound accessor, what they returned, and the accessor that threw.
CallRecord(op, time, add, row, col, invoked, w, I, n, mu, threw) ==
    [ op |-> op, currentTime |-> time, addContribution |-> add,
      startRow |-> row, startColumn |-> col, invoked |-> invoked,
      angularVelocity |-> w, inertiaTensor |-> I, normalization |-> n,
      gravitationalParameter |-> mu, threw |-> threw ]

PlainCall(op, add, row, col) ==
    CallRecord(op, 0, add, row, col, NoInvocation, Vec3Of(0), Mat3Of(0), 0, 0, "none")

\* What a call hands back: the argument it was asked about, the value of a
\* predicate, the callable and the width of a parameter partial, and the
\* exception that leaves the call ("none": it returns normally).
ReturnRecord(argument, value, callable, width, exception) ==
    [ argument |-> argument, value |-> value, callable |-> callable, width |-> width,
      exception |-> exception ]

NoReturn == ReturnRecord(<< "", "" >>, FALSE, "none", 0, "none")

\* The epoch marker of a new provider: the base class sets it to TUDAT_NAN.
InitialTime == NaN

\* The constructor: it binds the accessors and initialises no cached member.
Init ==
    /\ currentTime_ = InitialTime
    /\ \E g \in Indeterminate :
        /\ currentAngularVelocityVector_ = Vec3Of(g)
        /\ currentAngularVelocityCrossProductMatrix_ = Mat3Of(g)
        /\ currentInertiaTensor_ = Mat3Of(g)
        /\ currentInverseInertiaTensor_ = Mat3Of(g)
        /\ currentPartialDerivativeWrtAngularVelocity_ = Mat3Of(g)
        /\ currentInertiaTensorNormalizationFactor_ = g
        /\ currentGravitationalParameter_ = g
    /\ partialMatrix \in Prefills
    /\ matrixBefore = partialMatrix
    /\ numCalls = 0
    /\ lastCall = PlainCall("constructor", TRUE, 0, 0)
    /\ numUpdates = 0
    /\ lastUpdateTime = NaN
    /\ previousUpdateTime = NaN
    /\ lastReturn = NoReturn

NeedsRefreshWithoutNegation(cachedTime, currentTime) == fEq(cachedTime, currentTime)

\* update, line 109: the cache is refreshed unless the epoch marker equals the argument.
NeedsRefresh(cachedTime, currentTime) == ~fEq(cachedTime, currentTime)

PartialWrtAngularVelocitySignSlip(w, I) ==
    MatAdd(MatMul(getCrossProductMatrix(w), I), getCrossProductMatrix(MatVec(I, w)))

\* update, lines 121-123.
PartialWrtAngularVelocityOfConstantMomentum(w, I) ==
    MatMul(MatNeg(getCrossProductMatrix(w)), I)

PartialWrtAngularVelocity(w, I) ==
    MatAdd(MatMul(MatNeg(getCrossProductMatrix(w)), I), getCrossProductMatrix(MatVec(I, w)))

\* Whether update gets as far as invoking accessor a, and whether a returns.
Invoked(a, failing) == failing = "none" \/ CallIndex(a) <= CallIndex(failing)
ReturnedIncludingFailing(a, failing) == failing = "none" \/ CallIndex(a) <= CallIndex(failing)

Returned(a, failing) == failing = "none" \/ CallIndex(a) < CallIndex(failing)

PropagatedSwallowed(failing) == "none"

\* update has no try block: what an accessor throws leaves update as it is.
Propagated(failing) == failing

InvocationCountRepeatingAngularVelocity(a, failing) ==
    IF ~Invoked(a, failing) THEN 0
    ELSE IF a = "angularVelocity" /\ Returned(a, failing) THEN 2 ELSE 1

\* How often update calls accessor a: lines 111, 115, 116 and 118 hold one call
\* of one accessor each, and the later statements read the cached members.
InvocationCount(a, failing) == IF Invoked(a, failing) THEN 1 ELSE 0

\* update( currentTime ): the accessors return w, I, n, mu, or the accessor
\* `failing` throws and the exception leaves update at that statement.
update(currentTime, w, I, n, mu, failing) ==
    /\ numCalls < MaxCalls
    /\ IF NeedsRefresh(currentTime_, currentTime)
       THEN /\ currentAngularVelocityVector_' =
                 IF Returned("angularVelocity", failing) THEN w ELSE currentAngularVelocityVector_
            /\ currentAngularVelocityCrossProductMatrix_' =
                 IF Returned("angularVelocity", failing)
                 THEN getCrossProductMatrix(currentAngularVelocityVector_')
                 ELSE currentAngularVelocityCrossProductMatrix_
            /\ currentInertiaTensorNormalizationFactor_' =
                 IF Returned("normalization", failing) THEN n
                 ELSE currentInertiaTensorNormalizationFactor_
            /\ currentGravitationalParameter_' =
                 IF Returned("gravitationalParameter", failing) THEN mu
                 ELSE currentGravitationalParameter_
            /\ currentInertiaTensor_' =
                 IF Returned("inertiaTensor", failing) THEN I ELSE currentInertiaTensor_
            /\ currentInverseInertiaTensor_' =
                 IF Returned("inertiaTensor", failing) THEN Inverse(currentInertiaTensor_')
                 ELSE currentInverseInertiaTensor_
            /\ currentPartialDerivativeWrtAngularVelocity_' =
                 IF Returned("inertiaTensor", failing)
                 THEN PartialWrtAngularVelocity(currentAngularVelocityVector_',
                                                currentInertiaTensor_')
                 ELSE currentPartialDerivativeWrtAngularVelocity_
            /\ lastCall' = CallRecord("update", currentTime, TRUE, 0, 0,
                    [a \in DOMAIN NoInvocation |-> InvocationCount(a, failing)],
                    w, I, n, mu, failing)
            /\ lastReturn' = [NoReturn EXCEPT !.exception = Propagated(failing)]
       ELSE /\ UNCHANGED cache
            /\ lastCall' = CallRecord("update", currentTime, TRUE, 0, 0,
                    NoInvocation, w, I, n, mu, "none")
            /\ lastReturn' = NoReturn
    /\ UNCHANGED << currentTime_, partialMatrix >>
    /\ matrixBefore' = partialMatrix
    /\ numCalls' = numCalls + 1
    /\ numUpdates' = numUpdates + 1
    /\ lastUpdateTime' = currentTime
    /\ previousUpdateTime' = lastUpdateTime

AccumulateAlwaysAdds(addContribution, entry, partial) == fAdd(entry, partial)

\* Lines 90-97: += when addContribution, -= otherwise, entry by entry.
Accumulate(addContribution, entry, partial) ==
    IF addContribution THEN fAdd(entry, partial) ELSE fSub(entry, partial)

\* partialMatrix.block( startRow, startColumn, 3, 3 ): rows and columns are
\* counted from 0 in the code and from 1 in the sequences.
InBlock(r, c, startRow, startColumn) ==
    /\ r - 1 \in startRow .. startRow + 2
    /\ c - 1 \in startColumn .. startColumn + 2

BlockAccumulateTransposed(matrix, addContribution, startRow, startColumn, partial) ==
    [r \in 1 .. NumRows |-> [c \in 1 .. NumCols |->
        IF InBlock(r, c, startRow, startColumn)
        THEN Accumulate(addContribution, matrix[r][c],
                        partial[c - startColumn][r - startRow])
        ELSE matrix[r][c]]]

BlockAccumulateIgnoringColumn(matrix, addContribution, startRow, startColumn, partial) ==
    [r \in 1 .. NumRows |-> [c \in 1 .. NumCols |->
        IF InBlock(r, c, startRow, 0)
        THEN Accumulate(addContribution, matrix[r][c], partial[r - startRow][c])
        ELSE matrix[r][c]]]

\* partialMatrix.block( startRow, startColumn, 3, 3 ) += or -= the cached partial.
BlockAccumulate(matrix, addContribution, startRow, startColumn, partial) ==
    [r \in 1 .. NumRows |-> [c \in 1 .. NumCols |->
        IF InBlock(r, c, startRow, startColumn)
        THEN Accumulate(addContribution, matrix[r][c],
                        partial[r - startRow][c - startColumn])
        ELSE matrix[r][c]]]

wrtOrientationAccumulating(addContribution, startRow, startColumn) ==
    /\ numCalls < MaxCalls
    /\ partialMatrix' = BlockAccumulate(partialMatrix, addContribution, startRow, startColumn,
                                        currentPartialDerivativeWrtAngularVelocity_)
    /\ UNCHANGED << currentTime_, cache, numUpdates, lastUpdateTime, previousUpdateTime >>
    /\ matrixBefore' = partialMatrix
    /\ numCalls' = numCalls + 1
    /\ lastCall' = PlainCall("wrtOrientationOfAcceleratedBody", addContribution,
                             startRow, startColumn)
    /\ lastReturn' = NoReturn

\* wrtOrientationOfAcceleratedBody, lines 81-84: the body is empty.
wrtOrientationOfAcceleratedBody(addContribution, startRow, startColumn) ==
    /\ numCalls < MaxCalls
    /\ UNCHANGED << currentTime_, cache, partialMatrix, numUpdates, lastUpdateTime,
                    previousUpdateTime >>
    /\ matrixBefore' = partialMatrix
    /\ numCalls' = numCalls + 1
    /\ lastCall' = PlainCall("wrtOrientationOfAcceleratedBody", addContribution,
                             startRow, startColumn)
    /\ lastReturn' = NoReturn

wrtRotationalVelocityConsumingPartial(addContribution, startRow, startColumn) ==
    /\ numCalls < MaxCalls
    /\ partialMatrix' = BlockAccumulate(partialMatrix, addContribution, startRow, startColumn,
                                        currentPartialDerivativeWrtAngularVelocity_)
    /\ currentPartialDerivativeWrtAngularVelocity_' =
          IF addContribution THEN currentPartialDerivativeWrtAngularVelocity_
          ELSE MatNeg(currentPartialDerivativeWrtAngularVelocity_)
    /\ UNCHANGED << currentTime_, currentAngularVelocityVector_,
                    currentAngularVelocityCrossProductMatrix_, currentInertiaTensor_,
                    currentInverseInertiaTensor_, currentInertiaTensorNormalizationFactor_,
                    currentGravitationalParameter_, numUpdates, lastUpdateTime,
                    previousUpdateTime >>
    /\ matrixBefore' = partialMatrix
    /\ numCalls' = numCalls + 1
    /\ lastCall' = PlainCall("wrtRotationalVelocityOfAcceleratedBody", addContribution,
                             startRow, startColumn)
    /\ lastReturn' = NoReturn

\* wrtRotationalVelocityOfAcceleratedBody, lines 86-98.
wrtRotationalVelocityOfAcceleratedBody(addContribution, startRow, startColumn) ==
    /\ numCalls < MaxCalls
    /\ partialMatrix' = BlockAccumulate(partialMatrix, addContribution, startRow, startColumn,
                                        currentPartialDerivativeWrtAngularVelocity_)
    /\ UNCHANGED << currentTime_, cache, numUpdates, lastUpdateTime,
                    previousUpdateTime >>
    /\ matrixBefore' = partialMatrix
    /\ numCalls' = numCalls + 1
    /\ lastCall' = PlainCall("wrtRotationalVelocityOfAcceleratedBody", addContribution,
                             startRow, startColumn)
    /\ lastReturn' = NoReturn

\* The offsets (startRow, startColumn) the caller uses: the defaults of the two
\* accessors, (0, 0) and (0, 3), and the last 3x3 block of the matrix.
Offsets == { << 0, 0 >>, << 0, 3 >>, << NumRows - 3, NumCols - 3 >> }

Next ==
    \/ \E t \in Epochs, b \in BodyStates :
          update(t, b.angularVelocity, b.inertiaTensor, b.normalization,
                 b.gravitationalParameter, "none")
    \/ \E f \in Failures \ {"none"} :
          update(FailingEpoch, FailingBodyState.angularVelocity, FailingBodyState.inertiaTensor,
                 FailingBodyState.normalization, FailingBodyState.gravitationalParameter, f)
    \/ \E add \in BOOLEAN, at \in Offsets :
          wrtOrientationOfAcceleratedBody(add, at[1], at[2])
    \/ \E add \in BOOLEAN, at \in Offsets :
          wrtRotationalVelocityOfAcceleratedBody(add, at[1], at[2])

Spec == Init /\ [][Next]_vars

(***************************************************************************)
(* The queries of the provider: the two dependency predicates and the       *)
(* parameter-partial dispatch.                                              *)
(***************************************************************************)
\* The body the provider was constructed for, and another body.
AcceleratedBody == "Phobos"
OtherBody == "Mars"

\* Arguments of the dependency predicates: the body of the state reference
\* point and the integrated state type.
StateQueries ==
    { << AcceleratedBody, "translational_state" >>, << OtherBody, "body_mass_state" >> }

DependentOnTranslationalState(stateReferencePoint, integratedStateType) ==
    integratedStateType = "translational_state"

\* Line 58: return 0.
DependentOnNonRotationalState(stateReferencePoint, integratedStateType) == FALSE

\* Line 104: return false.
DependentOnAdditionalStateTypes(stateReferencePoint, integratedStateType) == FALSE

\* A call that reads nothing of the provider and hands back a value.
Answer(op, returned) ==
    /\ UNCHANGED << currentTime_, cache, partialMatrix, numUpdates, lastUpdateTime,
                    previousUpdateTime >>
    /\ matrixBefore' = partialMatrix
    /\ numCalls' = numCalls + 1
    /\ lastCall' = PlainCall(op, TRUE, 0, 0)
    /\ lastReturn' = returned

\* isStateDerivativeDependentOnIntegratedNonRotationalState, lines 54-59.
isStateDerivativeDependentOnIntegratedNonRotationalState(stateReferencePoint, integratedStateType) ==
    /\ numCalls < MaxCalls
    /\ Answer("isStateDerivativeDependentOnIntegratedNonRotationalState",
              ReturnRecord(<< stateReferencePoint, integratedStateType >>,
                           DependentOnNonRotationalState(stateReferencePoint,
                                                         integratedStateType),
                           "none", 0, "none"))

\* isStateDerivativeDependentOnIntegratedAdditionalStateTypes, lines 100-105.
isStateDerivativeDependentOnIntegratedAdditionalStateTypes(stateReferencePoint, integratedStateType) ==
    /\ numCalls < MaxCalls
    /\ Answer("isStateDerivativeDependentOnIntegratedAdditionalStateTypes",
              ReturnRecord(<< stateReferencePoint, integratedStateType >>,
                           DependentOnAdditionalStateTypes(stateReferencePoint,
                                                           integratedStateType),
                           "none", 0, "none"))

\* Parameter identities: the kind of the parameter and the body it belongs to.
\* The first three are scalar parameters, the last three vector parameters.
ScalarParameters ==
    { << "mean_moment_of_inertia", AcceleratedBody >>,
      << "gravitational_parameter", AcceleratedBody >>,
      << "mean_moment_of_inertia", OtherBody >> }
VectorParameters ==
    { << "degree_two_cosine_coefficients", AcceleratedBody >>,
      << "degree_two_sine_coefficients", AcceleratedBody >>,
      << "rotation_pole_position", AcceleratedBody >> }

NoDependency == [callable |-> "none", width |-> 0]

ScalarParameterPartialWithoutBodyCheck(parameter) ==
    IF parameter[1] = "mean_moment_of_inertia"
    THEN [callable |-> "wrtMeanMomentOfInertia", width |-> 1]
    ELSE IF parameter[1] = "gravitational_parameter"
    THEN [callable |-> "wrtGravitationalParameter", width |-> 1]
    ELSE NoDependency

\* The dispatch of the scalar overload: the callable and the width.
ScalarParameterPartial(parameter) ==
    IF parameter[2] # AcceleratedBody THEN NoDependency
    ELSE IF parameter[1] = "mean_moment_of_inertia"
    THEN [callable |-> "wrtMeanMomentOfInertia", width |-> 1]
    ELSE IF parameter[1] = "gravitational_parameter"
    THEN [callable |-> "wrtGravitationalParameter", width |-> 1]
    ELSE NoDependency

\* The dispatch of the vector overload: the callable and the width.
VectorParameterPartial(parameter) ==
    IF parameter[2] # AcceleratedBody THEN NoDependency
    ELSE IF parameter[1] = "degree_two_cosine_coefficients"
    THEN [callable |-> "wrtCosineSphericalHarmonicCoefficientsOfCentralBody", width |-> 3]
    ELSE IF parameter[1] = "degree_two_sine_coefficients"
    THEN [callable |-> "wrtSineSphericalHarmonicCoefficientsOfCentralBody", width |-> 2]
    ELSE NoDependency

\* getParameterPartialFunction, both overloads.
getParameterPartialFunction(parameter) ==
    LET found == IF parameter \in ScalarParameters THEN ScalarParameterPartial(parameter)
                 ELSE VectorParameterPartial(parameter)
    IN  /\ numCalls < MaxCalls
        /\ Answer("getParameterPartialFunction",
                  ReturnRecord(parameter, FALSE, found.callable, found.width, "none"))

NextAll ==
    \/ Next
    \/ \E q \in StateQueries :
          isStateDerivativeDependentOnIntegratedNonRotationalState(q[1], q[2])
    \/ \E q \in StateQueries :
          isStateDerivativeDependentOnIntegratedAdditionalStateTypes(q[1], q[2])
    \/ \E parameter \in ScalarParameters \cup VectorParameters :
          getParameterPartialFunction(parameter)

\* The provider with all its operations.
SpecAll == Init /\ [][NextAll]_vars

(***************************************************************************)
(* Properties.  A step of the provider is identified by the call it         *)
(* records: Calls(op) holds of a step in which operation op is called.      *)
(***************************************************************************)
Calls(op) == numCalls' = numCalls + 1 /\ lastCall'.op = op

\* The last call was an update that went through a whole refresh.
Refreshed(call) ==
    /\ call.op = "update"
    /\ call.threw = "none"
    /\ \A a \in DOMAIN call.invoked : call.invoked[a] = 1

\* A step that repeats the epoch of the completed update call right before it.
RepeatsUpdate ==
    /\ lastCall.op = "update"
    /\ lastCall.threw = "none"
    /\ Calls("update")
    /\ IsFinite(lastCall.currentTime)
    /\ lastCall'.currentTime = lastCall.currentTime

\* C1: once update(t) has completed for a real epoch t, an immediately
\* following update(t) invokes none of the four bound accessor functions.
C1_RepeatedEpochInvokesNoAccessor ==
    [][RepeatsUpdate => \A a \in DOMAIN NoInvocation : lastCall'.invoked[a] = 0]_vars

\* C2: the epoch marker equals the argument of the most recent update call,
\* and is the not-a-time sentinel while update has never been called.
C2_EpochMarkerIsLastUpdateArgument ==
    currentTime_ = (IF updateCalled THEN lastUpdateTime ELSE NaN)

\* C3: update(t) directly after a completed update(t), t a real epoch, leaves
\* every cached quantity as it was, whatever the accessors would return.
C3_RepeatedEpochLeavesCache ==
    [][RepeatsUpdate => cache' = cache]_vars

\* -[w x] * I + [(I * w) x].
AnalyticPartial(w, I) ==
    MatAdd(MatNeg(MatMul(getCrossProductMatrix(w), I)), getCrossProductMatrix(MatVec(I, w)))

\* The cached quantities as a full refresh computes them from the values the
\* accessors returned during a call.
RefreshedFrom(call) ==
    << call.angularVelocity, getCrossProductMatrix(call.angularVelocity),
       call.inertiaTensor, Inverse(call.inertiaTensor),
       AnalyticPartial(call.angularVelocity, call.inertiaTensor),
       call.normalization, call.gravitationalParameter >>

\* C4: an update call whose epoch differs from the epoch of the update call
\* before it, and the first update call of a provider, invokes every accessor
\* and recomputes every cached quantity from the values they return (the
\* accessors returning normally).
C4_NewEpochRefreshes ==
    [][(/\ Calls("update")
        /\ lastCall'.threw = "none"
        /\ (~updateCalled \/ ~fEq(lastUpdateTime, lastCall'.currentTime)))
       => (Refreshed(lastCall') /\ cache' = RefreshedFrom(lastCall'))]_vars

\* A second or later update call with a new real epoch has refreshed the cache.
C4_Witness ==
    /\ Refreshed(lastCall)
    /\ numUpdates >= 2
    /\ IsFinite(lastUpdateTime)
    /\ IsFinite(previousUpdateTime)
    /\ lastUpdateTime # previousUpdateTime
    /\ cache = RefreshedFrom(lastCall)

\* C5: after an update call that refreshed, the cached analytic partial is
\* -[w x] * I + [(I * w) x] of the w and I the accessors returned in that
\* call, whatever the normalization factor and the gravitational parameter.
C5_PartialIsAnalyticFormula ==
    Refreshed(lastCall) =>
        currentPartialDerivativeWrtAngularVelocity_ =
            AnalyticPartial(lastCall.angularVelocity, lastCall.inertiaTensor)

\* A refresh with the spec's w and I, under the second normalization factor and
\* gravitational parameter, cached a non-zero partial.
C5_Witness ==
    /\ Refreshed(lastCall)
    /\ lastCall.normalization = 2 * One
    /\ lastCall.gravitationalParameter = 3 * One
    /\ lastCall.angularVelocity = << 1, 2, 3 >>
    /\ currentPartialDerivativeWrtAngularVelocity_[2][1] > 0
    /\ currentPartialDerivativeWrtAngularVelocity_[1][2] < 0
    /\ \A i \in Idx3, j \in Idx3 : IsFinite(currentPartialDerivativeWrtAngularVelocity_[i][j])

\* The cells of the 3x3 block at an offset pair.
BlockCells(startRow, startColumn) ==
    { rc \in (1 .. NumRows) \X (1 .. NumCols) : InBlock(rc[1], rc[2], startRow, startColumn) }
AllCells == (1 .. NumRows) \X (1 .. NumCols)

\* The entry of the cached partial that belongs to a cell of the block.
PartialAt(call, rc) ==
    currentPartialDerivativeWrtAngularVelocity_[rc[1] - call.startRow][rc[2] - call.startColumn]

\* C6: wrtRotationalVelocityOfAcceleratedBody changes each entry of the 3x3
\* block at (startRow, startColumn) to its previous content plus the cached
\* partial when addContribution, minus the cached partial otherwise.
C6_BlockPlusOrMinusPartial ==
    [][Calls("wrtRotationalVelocityOfAcceleratedBody") =>
        \A rc \in BlockCells(lastCall'.startRow, lastCall'.startColumn) :
            partialMatrix'[rc[1]][rc[2]] =
                IF lastCall'.addContribution
                THEN fAdd(partialMatrix[rc[1]][rc[2]], PartialAt(lastCall', rc))
                ELSE fSub(partialMatrix[rc[1]][rc[2]], PartialAt(lastCall', rc))]_vars

\* A subtracting call after an update has changed an entry of its block.
C6_Witness ==
    /\ lastCall.op = "wrtRotationalVelocityOfAcceleratedBody"
    /\ ~lastCall.addContribution
    /\ updateCalled
    /\ \E rc \in BlockCells(lastCall.startRow, lastCall.startColumn) :
        /\ PartialAt(lastCall, rc) # 0
        /\ IsFinite(PartialAt(lastCall, rc))
        /\ partialMatrix[rc[1]][rc[2]] =
              fSub(matrixBefore[rc[1]][rc[2]], PartialAt(lastCall, rc))
        /\ partialMatrix[rc[1]][rc[2]] # matrixBefore[rc[1]][rc[2]]

\* A step that calls wrtRotationalVelocityOfAcceleratedBody at the offsets of
\* the call right before it, which was the same operation with the other sign.
OppositePair ==
    /\ lastCall.op = "wrtRotationalVelocityOfAcceleratedBody"
    /\ Calls("wrtRotationalVelocityOfAcceleratedBody")
    /\ lastCall'.addContribution = ~lastCall.addContribution
    /\ lastCall'.startRow = lastCall.startRow
    /\ lastCall'.startColumn = lastCall.startColumn

\* C7, as stated: the two calls of an opposite pair return the target block to
\* exactly its content before the two calls (stated for finite doubles in the
\* block and in the cached partial, where "the same content" is not in doubt).
C7_OppositePairRestoresBlock ==
    [][OppositePair =>
        \A rc \in BlockCells(lastCall'.startRow, lastCall'.startColumn) :
            (IsFinite(matrixBefore[rc[1]][rc[2]]) /\ IsFinite(PartialAt(lastCall', rc)))
                => partialMatrix'[rc[1]][rc[2]] = matrixBefore[rc[1]][rc[2]]]_vars

\* The first call of a pair on entry a with partial p computes a + p or a - p
\* without rounding.
ExactFirstCall(addContribution, a, p) ==
    /\ IsFinite(a)
    /\ IsFinite(p)
    /\ IF addContribution THEN fAdd(a, p) = a + p ELSE fSub(a, p) = a - p

\* C7, amended: the two calls of an opposite pair return an entry of the
\* target block to exactly its content before them when the entry and the
\* partial's entry are finite and the first call's sum is exact in double
\* arithmetic; so a zero block under a finite partial is zero again.
C7_OppositePairRestoresExactEntries ==
    [][OppositePair =>
        \A rc \in BlockCells(lastCall'.startRow, lastCall'.startColumn) :
            LET a == matrixBefore[rc[1]][rc[2]]
                p == PartialAt(lastCall', rc)
            IN  /\ ExactFirstCall(lastCall.addContribution, a, p)
                      => partialMatrix'[rc[1]][rc[2]] = a
                /\ (a = 0 /\ IsFinite(p)) => partialMatrix'[rc[1]][rc[2]] = 0]_vars

\* After an update, the partial was added to a zero block and then subtracted:
\* before the last call the block held the non-zero partial, now it is zero.
C7_Witness ==
    /\ lastCall.op = "wrtRotationalVelocityOfAcceleratedBody"
    /\ ~lastCall.addContribution
    /\ updateCalled
    /\ numCalls >= 3
    /\ \A rc \in BlockCells(lastCall.startRow, lastCall.startColumn) :
        /\ IsFinite(PartialAt(lastCall, rc))
        /\ matrixBefore[rc[1]][rc[2]] = PartialAt(lastCall, rc)
        /\ partialMatrix[rc[1]][rc[2]] = 0
    /\ \E rc \in BlockCells(lastCall.startRow, lastCall.startColumn) :
        PartialAt(lastCall, rc) # 0

\* C8: wrtRotationalVelocityOfAcceleratedBody leaves every entry outside the
\* 3x3 block at (startRow, startColumn) unchanged, at every offset pair and
\* for both values of addContribution.
C8_OutsideBlockUnchanged ==
    [][Calls("wrtRotationalVelocityOfAcceleratedBody") =>
        \A rc \in AllCells \ BlockCells(lastCall'.startRow, lastCall'.startColumn) :
            partialMatrix'[rc[1]][rc[2]] = partialMatrix[rc[1]][rc[2]]]_vars

\* A call at the default offsets (0, 3) changed its block in a matrix whose
\* other entries are not zero.
C8_Witness ==
    /\ lastCall.op = "wrtRotationalVelocityOfAcceleratedBody"
    /\ lastCall.startRow = 0
    /\ lastCall.startColumn = 3
    /\ \E rc \in BlockCells(0, 3) : partialMatrix[rc[1]][rc[2]] # matrixBefore[rc[1]][rc[2]]
    /\ \A rc \in AllCells \ BlockCells(0, 3) :
        /\ partialMatrix[rc[1]][rc[2]] # 0
        /\ partialMatrix[rc[1]][rc[2]] = matrixBefore[rc[1]][rc[2]]

\* C9: wrtOrientationOfAcceleratedBody leaves every entry of the caller's
\* matrix as it was, for all arguments, before and after update.
C9_OrientationPartialIsNoOp ==
    [][Calls("wrtOrientationOfAcceleratedBody") => partialMatrix' = partialMatrix]_vars

\* A subtracting call after an update, on a matrix that is not zero.
C9_Witness ==
    /\ lastCall.op = "wrtOrientationOfAcceleratedBody"
    /\ ~lastCall.addContribution
    /\ lastCall.startColumn = 3
    /\ updateCalled
    /\ partialMatrix[1][4] # 0
    /\ partialMatrix = matrixBefore
    /\ currentPartialDerivativeWrtAngularVelocity_[2][1] # 0

\* C10: wrtRotationalVelocityOfAcceleratedBody on a provider on which update
\* has never been called fails and leaves the output block unchanged.
C10_UseBeforeUpdateLeavesBlock ==
    [][(Calls("wrtRotationalVelocityOfAcceleratedBody") /\ ~updateCalled)
        => partialMatrix' = partialMatrix]_vars

\* The cached quantities are mutually consistent: the cross-product matrix is
\* that of the cached angular velocity, the inverse that of the cached inertia
\* tensor, the partial -[w x] * I + [(I * w) x] of the cached w and I.
CacheConsistent ==
    /\ currentAngularVelocityCrossProductMatrix_ =
          getCrossProductMatrix(currentAngularVelocityVector_)
    /\ currentInverseInertiaTensor_ = Inverse(currentInertiaTensor_)
    /\ currentPartialDerivativeWrtAngularVelocity_ =
          AnalyticPartial(currentAngularVelocityVector_, currentInertiaTensor_)

\* C11: once the first update call has returned or been abandoned, the cached
\* quantities are mutually consistent and stem from one single refresh.
C11_CacheConsistentAfterUpdate ==
    updateCalled => CacheConsistent

ReadOnlyOperations ==
    { "wrtOrientationOfAcceleratedBody", "wrtRotationalVelocityOfAcceleratedBody",
      "isStateDerivativeDependentOnIntegratedNonRotationalState",
      "isStateDerivativeDependentOnIntegratedAdditionalStateTypes" }

\* C12: the cache is mutated only by update: the two state-partial accessors and
\* the two dependency predicates leave every cached quantity and the epoch marker
\* unchanged and invoke none of the bound accessors, wherever they occur in a
\* sequence of calls.
C12_CacheMutatedOnlyByUpdate ==
    [][ (\E op \in ReadOnlyOperations : Calls(op)) =>
            /\ cache' = cache
            /\ currentTime_' = currentTime_
            /\ \A a \in DOMAIN NoInvocation : lastCall'.invoked[a] = 0 ]_vars

\* A subtracting wrtRotationalVelocityOfAcceleratedBody after a completed refresh
\* changed the caller's matrix and the cache still holds the refreshed partial.
C12_Witness ==
    /\ lastCall.op = "wrtRotationalVelocityOfAcceleratedBody"
    /\ ~lastCall.addContribution
    /\ updateCalled
    /\ CacheConsistent
    /\ \E i, j \in Idx3 : currentPartialDerivativeWrtAngularVelocity_[i][j] \notin {0, NaN}
    /\ partialMatrix # matrixBefore

(***************************************************************************)
(* The pseudo-torque and its central difference in exact integer            *)
(* arithmetic.  An angular velocity w and an inertia tensor I hold integer  *)
(* counts of the unit 1 / One, so the torque f(w) = -w x (I * w) is an      *)
(* integer count of the unit 1 / One^3.                                     *)
(***************************************************************************)
ExactAngularMomentum(w, I) ==
    [i \in Idx3 |-> I[i][1] * w[1] + I[i][2] * w[2] + I[i][3] * w[3]]

ExactInertialTorque(w, I) ==
    LET L == ExactAngularMomentum(w, I)
    IN  << 0 - (w[2] * L[3] - w[3] * L[2]),
           0 - (w[3] * L[1] - w[1] * L[3]),
           0 - (w[1] * L[2] - w[2] * L[1]) >>

\* w + h * e_j.
Perturbed(w, j, h) == [k \in Idx3 |-> IF k = j THEN w[k] + h ELSE w[k]]

\* Steps of the central difference, in units.
Steps == {1, 2}

\* f(w + h * e_j) - f(w - h * e_j), component i.
CentralDifference(w, I, h, i, j) ==
    ExactInertialTorque(Perturbed(w, j, h), I)[i]
        - ExactInertialTorque(Perturbed(w, j, 0 - h), I)[i]

\* x is a multiple of One whose quotient is a value of the arithmetic.
ExactProduct(x) == x % One = 0 /\ (x \div One) \in FiniteDoubles

\* The sum x1 * y1 + x2 * y2 + x3 * y3 is computed without rounding.
ExactDot(x, y) ==
    /\ \A k \in Idx3 : ExactProduct(x[k] * y[k])
    /\ ((x[1] * y[1] + x[2] * y[2]) \div One) \in FiniteDoubles
    /\ ((x[1] * y[1] + x[2] * y[2] + x[3] * y[3]) \div One) \in FiniteDoubles

ExactCross(v) ==
    << << 0, 0 - v[3], v[2] >>, << v[3], 0, 0 - v[1] >>, << 0 - v[2], v[1], 0 >> >>

\* The inputs of a refresh for which no operation of the formula rounds: the
\* values are finite and every product and every sum is a value of the
\* arithmetic.
ExactInputs(w, I) ==
    /\ \A i \in Idx3 : IsFinite(w[i]) /\ \A j \in Idx3 : IsFinite(I[i][j])
    /\ \A i \in Idx3 : ExactDot(I[i], w)
    /\ \A i, j \in Idx3 : ExactDot(ExactCross(w)[i], [k \in Idx3 |-> I[k][j]])
    /\ LET L == [i \in Idx3 |-> ExactAngularMomentum(w, I)[i] \div One]
           M == [i \in Idx3 |-> [j \in Idx3 |->
                    (ExactCross(w)[i][1] * I[1][j] + ExactCross(w)[i][2] * I[2][j]
                        + ExactCross(w)[i][3] * I[3][j]) \div One]]
       IN  \A i, j \in Idx3 : (ExactCross(L)[i][j] - M[i][j]) \in FiniteDoubles

\* C13: for every angular velocity and inertia tensor on which the arithmetic
\* is exact, every entry of the analytic partial cached by a refresh equals
\* the central finite difference (f(w + h e_j) - f(w - h e_j)) / (2 h) of
\* f(w) = -w x (I w), for every step h.
C13_PartialIsCentralDifference ==
    [][ (/\ Calls("update")
         /\ Refreshed(lastCall')
         /\ ExactInputs(lastCall'.angularVelocity, lastCall'.inertiaTensor)) =>
            \A i, j \in Idx3 : \A h \in Steps :
                currentPartialDerivativeWrtAngularVelocity_'[i][j] * 2 * h * One =
                    CentralDifference(lastCall'.angularVelocity, lastCall'.inertiaTensor,
                                      h, i, j) ]_vars

\* A refresh on exact inputs with a coupled inertia tensor cached a partial
\* with non-zero entries, among them a diagonal one.
C13_Witness ==
    /\ lastCall.op = "update"
    /\ Refreshed(lastCall)
    /\ ExactInputs(lastCall.angularVelocity, lastCall.inertiaTensor)
    /\ lastCall.inertiaTensor[1][2] # 0
    /\ currentPartialDerivativeWrtAngularVelocity_[1][1] # 0
    /\ currentPartialDerivativeWrtAngularVelocity_[2][1] # 0

\* C14: getParameterPartialFunction returns width 1 with a callable for the
\* mean moment of inertia and for the gravitational parameter, width 3 with a
\* callable for the degree-2 cosine coefficients, width 2 with a callable for
\* the degree-2 sine coefficients, and width 0 with an absent callable for
\* every other parameter identity; no request raises an error.
C14_ParameterDispatchWidths ==
    lastCall.op = "getParameterPartialFunction" =>
        LET kind == lastReturn.argument[1]
            own == lastReturn.argument[2] = AcceleratedBody
            width == lastReturn.width
            present == lastReturn.callable # "none"
        IN  /\ lastReturn.exception = "none"
            /\ (own /\ kind = "mean_moment_of_inertia") => (width = 1 /\ present)
            /\ (own /\ kind = "gravitational_parameter") => (width = 1 /\ present)
            /\ (own /\ kind = "degree_two_cosine_coefficients") => (width = 3 /\ present)
            /\ (own /\ kind = "degree_two_sine_coefficients") => (width = 2 /\ present)
            /\ (~own \/ kind \notin { "mean_moment_of_inertia", "gravitational_parameter",
                                       "degree_two_cosine_coefficients",
                                       "degree_two_sine_coefficients" })
                   => (width = 0 /\ ~present)

\* After an update, a request for the mean moment of inertia of another body
\* was answered with width 0 and no callable.
C14_Witness ==
    /\ lastCall.op = "getParameterPartialFunction"
    /\ lastReturn.argument = << "mean_moment_of_inertia", OtherBody >>
    /\ lastReturn.width = 0
    /\ lastReturn.callable = "none"
    /\ updateCalled

DependencyPredicates ==
    { "isStateDerivativeDependentOnIntegratedNonRotationalState",
      "isStateDerivativeDependentOnIntegratedAdditionalStateTypes" }

\* C15: both dependency predicates return false for every state reference
\* point and every integrated state type, in every provider state, before and
\* after any update.
C15_DependencyPredicatesReturnFalse ==
    lastCall.op \in DependencyPredicates => lastReturn.value = FALSE

\* The non-rotational-state predicate was asked about the translational state
\* of the provider's own body after two updates, the second of them abandoned.
C15_Witness ==
    /\ lastCall.op = "isStateDerivativeDependentOnIntegratedNonRotationalState"
    /\ lastReturn.argument = << AcceleratedBody, "translational_state" >>
    /\ lastReturn.value = FALSE
    /\ numUpdates = 2
    /\ ~CacheConsistent

\* C16: every cache refresh that update performs invokes each of the four
\* bound accessors exactly once: none twice, none skipped; and no update call
\* invokes an accessor more than once.
C16_RefreshInvokesEachAccessorOnce ==
    [][ Calls("update") =>
            /\ \A a \in DOMAIN NoInvocation : lastCall'.invoked[a] <= 1
            /\ (NeedsRefresh(currentTime_, lastCall'.currentTime) /\ lastCall'.threw = "none")
                  => \A a \in DOMAIN NoInvocation : lastCall'.invoked[a] = 1 ]_vars

\* The third update of a run completed a refresh: each accessor was invoked
\* once and the cache holds what they returned.
C16_Witness ==
    /\ lastCall.op = "update"
    /\ lastCall.threw = "none"
    /\ numUpdates = 3
    /\ \A a \in DOMAIN NoInvocation : lastCall.invoked[a] = 1
    /\ cache = RefreshedFrom(lastCall)

\* An update call during which one of the accessors threw.
AbandonsUpdate == Calls("update") /\ lastCall'.threw # "none"

\* C17: when an accessor fails while update refreshes the cache, that failure
\* reaches the caller of update unchanged: update neither swallows it nor
\* returns normally, and invokes neither the failing accessor nor any other
\* accessor again.
C17_AccessorFailurePropagates ==
    [][ AbandonsUpdate =>
            /\ lastReturn'.exception = lastCall'.threw
            /\ \A a \in DOMAIN NoInvocation :
                  lastCall'.invoked[a] =
                      IF CallIndex(a) <= CallIndex(lastCall'.threw) THEN 1 ELSE 0 ]_vars

\* After a completed update, an update in which the normalization accessor
\* threw handed that failure to its caller; the accessors after it were not
\* invoked.
C17_Witness ==
    /\ lastCall.op = "update"
    /\ lastCall.threw = "normalization"
    /\ lastReturn.exception = "normalization"
    /\ lastCall.invoked["angularVelocity"] = 1
    /\ lastCall.invoked["inertiaTensor"] = 0
    /\ numUpdates = 2
    /\ \A i, j \in Idx3 : IsFinite(currentPartialDerivativeWrtAngularVelocity_[i][j])

\* C18: update called with the not-a-time sentinel performs a full refresh on
\* every call, also when the call before it had the sentinel too: the
\* sentinel is never taken for a repeated epoch.
C18_SentinelEpochAlwaysRefreshes ==
    [][ (Calls("update") /\ IsNaN(lastCall'.currentTime) /\ lastCall'.threw = "none") =>
            /\ Refreshed(lastCall')
            /\ cache' = RefreshedFrom(lastCall') ]_vars

\* Two consecutive update calls with the sentinel: the second one refreshed
\* the cache from a body state other than the one the first had cached.
C18_Witness ==
    /\ lastCall.op = "update"
    /\ numUpdates = 2
    /\ numCalls = 2
    /\ IsNaN(lastUpdateTime)
    /\ IsNaN(previousUpdateTime)
    /\ Refreshed(lastCall)
    /\ cache = RefreshedFrom(lastCall)
    /\ lastCall.angularVelocity = << One, 0, -One >>

\* C19: when an accessor fails during update, the cached analytic partial and
\* the epoch marker keep the values they had before the call, so that a later
\* wrtRotationalVelocityOfAcceleratedBody writes the partial of the last
\* completed refresh.
C19_FailedUpdateKeepsPartial ==
    [][ AbandonsUpdate =>
            /\ currentPartialDerivativeWrtAngularVelocity_' =
                  currentPartialDerivativeWrtAngularVelocity_
            /\ currentTime_' = currentTime_ ]_vars

\* A completed refresh, then an update in which the inertia-tensor accessor
\* threw, then wrtRotationalVelocityOfAcceleratedBody: the angular velocity,
\* the normalization factor and the gravitational parameter are those of the
\* abandoned update, the inertia tensor and the partial written into the
\* caller's matrix are those of the completed refresh.
C19_Witness ==
    /\ lastCall.op = "wrtRotationalVelocityOfAcceleratedBody"
    /\ numUpdates = 2
    /\ currentAngularVelocityVector_ = FailingBodyState.angularVelocity
    /\ currentInertiaTensorNormalizationFactor_ = FailingBodyState.normalization
    /\ currentGravitationalParameter_ = FailingBodyState.gravitationalParameter
    /\ \E b \in BodyStates :
          /\ b.angularVelocity # currentAngularVelocityVector_
          /\ currentInertiaTensor_ = b.inertiaTensor
          /\ currentPartialDerivativeWrtAngularVelocity_ =
                AnalyticPartial(b.angularVelocity, b.inertiaTensor)
    /\ partialMatrix # matrixBefore
====
